---- MODULE Spec2Model ----
(***************************************************************************)
(* Model of update.py: the daily IBIT tracker update.                      *)
(*                                                                         *)
(* Text is modelled as a sequence of tokens.  A token is a record          *)
(* [k, v]: k names the piece of text, v carries its number (the width of   *)
(* a run of spaces, a numeric literal, a day number, a word index).        *)
(* Indices and lengths are counted in tokens and, as in Python, start at   *)
(* 0; find returns -1 when the pattern is absent.  An offset such as       *)
(* find(tag) + len(tag) is therefore a number of tokens, not of            *)
(* characters: it names the same place when the tag is found, and a place  *)
(* len(tag) - 1 tokens into the file when it is not.                       *)
(*                                                                         *)
(* Numbers: holdings and flows are whole BTC, prices are thousands of USD, *)
(* so that aum and usdFlow are thousands of USD too.                       *)
(***************************************************************************)
EXTENDS Integers, Sequences, FiniteSets

VARIABLES
    file,         \* the state file HTML_FILE: [exists, content]
    now,          \* the wall clock, in ticks (TicksPerDay ticks to a day)
    pc,           \* position of __main__: "fetch", "generate", "update", "exit"
    new_data,     \* __main__'s new_data: [status, entry]
    summary,      \* __main__'s summary
    exit_status,  \* -1 while the process runs, then the exit status
    ret,          \* result of update_html_file in this run: "none", "True", "False", "raise"
    runs,         \* number of runs started
    \* history of the current run and of the whole behaviour
    file0,        \* the state file when the run started
    writes,       \* number of writes of the state file in this run
    price_resp,   \* what the price service answered in this run
    gen_case,     \* how generate_ai_content ended in this run
    prev_summary, \* narrative written by the latest earlier successful update
    init_file,    \* the state file before the first run
    added         \* entries written by the successful updates, in order

vars == <<file, now, pc, new_data, summary, exit_status, ret, runs,
          file0, writes, price_resp, gen_case, prev_summary, init_file, added>>

----------------------------------------------------------------------------
(* Bounds *)

MaxRuns == 2

TicksPerDay == 2

----------------------------------------------------------------------------
(* Tokens *)

Tok(s) == [k |-> s, v |-> 0]

Sp(n) == [k |-> "sp", v |-> n]

Num(n) == [k |-> "num", v |-> n]

DateStr(d) == [k |-> "date", v |-> d]

Word(i) == [k |-> "word", v |-> i]

NL == Tok("nl")

Comma == Tok(",")

IsWs(t) == t.k \in {"sp", "nl"}

----------------------------------------------------------------------------
(* Python's str operations, on token sequences *)

\* the bound of a slice: negative counts from the end, then clamp to 0..n
Norm(n, i) == IF i < 0 THEN (IF n + i < 0 THEN 0 ELSE n + i)
              ELSE (IF i > n THEN n ELSE i)

\* s[i:j]
Slice(s, i, j) ==
    LET a == Norm(Len(s), i)
        b == Norm(Len(s), j)
    IN  IF a >= b THEN <<>> ELSE SubSeq(s, a + 1, b)

\* s[i:]
SliceFrom(s, i) == Slice(s, i, Len(s))

\* s.find(pat, start)
Find(s, pat, start) ==
    LET hits == {i \in Norm(Len(s), start)..(Len(s) - Len(pat)) :
                    SubSeq(s, i + 1, i + Len(pat)) = pat}
    IN  IF start > Len(s) \/ hits = {} THEN -1
        ELSE CHOOSE i \in hits : \A j \in hits : i <= j

\* the first position >= i (from 1) of s whose token is no whitespace, or Len(s) + 1
RECURSIVE FirstText(_, _)
FirstText(s, i) ==
    IF i > Len(s) \/ ~IsWs(s[i]) THEN i ELSE FirstText(s, i + 1)

\* the last position <= i of s whose token is not in drop, or 0
RECURSIVE LastKept(_, _, _)
LastKept(s, drop, i) ==
    IF i = 0 \/ s[i].k \notin drop THEN i ELSE LastKept(s, drop, i - 1)

\* s.strip()
Strip(s) == SubSeq(s, FirstText(s, 1), LastKept(s, {"sp", "nl"}, Len(s)))

\* s.rstrip(',')
RStripComma(s) == SubSeq(s, 1, LastKept(s, {","}, Len(s)))

\* s.split('\n')
RECURSIVE Split(_)
Split(s) ==
    LET nl == Find(s, <<NL>>, 0)
    IN  IF nl = -1 THEN <<s>>
        ELSE <<SubSeq(s, 1, nl)>> \o Split(SubSeq(s, nl + 2, Len(s)))

\* '\n'.join(lines)
RECURSIVE Join(_)
Join(lines) ==
    IF Len(lines) = 0 THEN <<>>
    ELSE IF Len(lines) = 1 THEN lines[1]
    ELSE lines[1] \o <<NL>> \o Join(Tail(lines))

\* s.replace(old, new) for a one-token old
Replace(s, old, new) ==
    SubSeq([i \in 1..Len(s) |-> IF s[i] = old THEN new ELSE s[i]], 1, Len(s))

\* s.startswith(pat)
StartsWith(s, pat) == Len(s) >= Len(pat) /\ SubSeq(s, 1, Len(pat)) = pat

Contains(s, pat) == Find(s, pat, 0) # -1

----------------------------------------------------------------------------
(* The literals of update.py *)

data_start_tag == <<Tok("//"), Sp(1), Tok("<NEW_FUND_DATA_INJECTION>")>>

data_end_tag == <<Tok("//"), Sp(1), Tok("</NEW_FUND_DATA_INJECTION>")>>

ai_content_start_tag ==
    <<Tok("<p"), Sp(1), Tok("id=aiContent"), Sp(1),
      Tok("class=text-lg text-gray-700 leading-relaxed mb-8>")>>

ai_content_end_tag == <<Tok("</p>")>>

OpenArr == Tok("const fundData = [")

CloseArr == Tok("];")

DATE_PLACEHOLDER == Tok("DATE_PLACEHOLDER")

LATEST_IBIT_HOLDINGS_BTC == 306050

MissingKeyText == <<Tok("AI content generation failed: Missing API Key.")>>

ApiErrorText == <<Tok("AI content generation failed due to API connection error.")>>

UnexpectedErrorText == <<Tok("AI content generation failed due to an unexpected error.")>>

NoEntry == [date |-> -1, price |-> 0, holdings |-> 0, btcFlow |-> 0,
            aum |-> 0, usdFlow |-> 0]

----------------------------------------------------------------------------
(* fetch_live_data *)

\* PriceUnavailable without the `if not current_price` test of line 22
PriceUnavailable_RequestOnly(resp) == resp.kind = "RequestException"

\* lines 18-28: the request raised, or `not current_price` (no field, null, 0)
PriceUnavailable(resp) ==
    \/ resp.kind = "RequestException"
    \/ resp.kind \in {"no_field", "null"}
    \/ resp.kind = "number" /\ resp.usd = 0

\* lines 39-40: strftime("%Y-%m-%d") keeps the day and drops the time of day
today_str(clock) == clock \div TicksPerDay

\* line 63: float(text) of the stripped slice; a ValueError unless the text
\* is one numeric literal
ParseFloat(text) ==
    IF Len(text) = 1 /\ text[1].k = "num"
    THEN [kind |-> "float", v |-> text[1].v]
    ELSE [kind |-> "ValueError", v |-> 0]

\* lines 59-63, for the line taken as the last entry
HoldingsOfLine(last_data_line) ==
    IF Contains(last_data_line, <<Tok("holdings:")>>)
    THEN LET start_h == Find(last_data_line, <<Tok("holdings:")>>, 0) + 1
             end_h   == Find(last_data_line, <<Comma>>, start_h)
         IN  ParseFloat(Strip(Slice(last_data_line, start_h, end_h)))
    ELSE [kind |-> "None", v |-> 0]

\* lines 55: data_block.strip().split('\n')[-2], an IndexError when there
\* are fewer than two lines
LastDataLine(data_block) ==
    LET lines == Split(Strip(data_block))
    IN  IF Len(lines) < 2 THEN [kind |-> "IndexError", line |-> <<>>]
        ELSE [kind |-> "line", line |-> lines[Len(lines) - 1]]

\* lines 43-66: last_holdings; every exception inside the try gives the fallback
LastHoldings(f) ==
    LET fallback == [kind |-> "float", v |-> LATEST_IBIT_HOLDINGS_BTC - 500]
    IN  IF ~f.exists THEN fallback
        ELSE LET content    == f.content
                 data_start == Find(content, data_start_tag, 0)
                 data_end   == Find(content, data_end_tag, 0)
             IN  IF data_start # -1 /\ data_end # -1
                 THEN LET l == LastDataLine(Slice(content, data_start, data_end))
                      IN  IF l.kind = "IndexError" THEN fallback
                          ELSE LET h == HoldingsOfLine(l.line)
                               IN  IF h.kind = "ValueError" THEN fallback ELSE h
                 ELSE [kind |-> "None", v |-> 0]

\* lines 10-82: [status |-> "ok", entry] for a record, "None" for
\* (None, None), "raise" for the TypeError of line 69 when last_holdings is None
fetch_live_data(resp, clock, f) ==
    IF PriceUnavailable(resp) THEN [status |-> "None", entry |-> NoEntry]
    ELSE LET current_price == resp.usd
             last_holdings == LastHoldings(f)
         IN  IF last_holdings.kind = "None"
             THEN [status |-> "raise", entry |-> NoEntry]
             ELSE LET btc_flow == LATEST_IBIT_HOLDINGS_BTC - last_holdings.v
                  IN  [status |-> "ok",
                       entry  |-> [date     |-> today_str(clock),
                                   price    |-> current_price,
                                   holdings |-> LATEST_IBIT_HOLDINGS_BTC,
                                   btcFlow  |-> btc_flow,
                                   aum      |-> LATEST_IBIT_HOLDINGS_BTC * current_price,
                                   usdFlow  |-> btc_flow * current_price]]

----------------------------------------------------------------------------
(* generate_ai_content *)

\* line 116: response.text.replace('\n', ' ')
OneLine(text) == Replace(text, NL, Sp(1))

\* generate_ai_content without the `except Exception` clause of lines 120-122
generate_ai_content_Propagates(api_key_set, service) ==
    IF ~api_key_set THEN [status |-> "return", text |-> MissingKeyText]
    ELSE IF service.kind = "text"
         THEN [status |-> "return", text |-> OneLine(service.text)]
    ELSE IF service.kind = "APIError"
         THEN [status |-> "return", text |-> ApiErrorText]
    ELSE [status |-> "raise", text |-> <<>>]

\* lines 85-122: api_key_set is `os.environ.get("GEMINI_API_KEY")` being
\* non-empty; service is what client.models.generate_content does
generate_ai_content(api_key_set, service) ==
    IF ~api_key_set THEN [status |-> "return", text |-> MissingKeyText]
    ELSE IF service.kind = "text"
         THEN [status |-> "return", text |-> OneLine(service.text)]
    ELSE IF service.kind = "APIError"
         THEN [status |-> "return", text |-> ApiErrorText]
    ELSE [status |-> "return", text |-> UnexpectedErrorText]

----------------------------------------------------------------------------
(* update_html_file *)

\* lines 144-149: the lines of the existing block, the last one stripped of
\* its comma when it starts with {
ExistingDataLines(content, start_index, end_index) ==
    LET existing_data_block == Slice(content, start_index + Len(data_start_tag), end_index)
        lines == Split(Strip(existing_data_block))
        n     == Len(lines)
    IN  IF n > 0 /\ StartsWith(Strip(lines[n]), <<Tok("{")>>)
        THEN [lines EXCEPT ![n] = RStripComma(Strip(lines[n]))]
        ELSE lines

\* line 152
NewDataLine(e) ==
    <<Tok("{"), Sp(1), Tok("date:"), Sp(1), Tok("quote"), DateStr(e.date), Tok("quote"), Comma,
      Sp(1), Tok("price:"), Sp(1), Num(e.price), Comma,
      Sp(1), Tok("holdings:"), Sp(1), Num(e.holdings), Comma,
      Sp(1), Tok("btcFlow:"), Sp(1), Num(e.btcFlow), Comma,
      Sp(1), Tok("aum:"), Sp(1), Num(e.aum), Comma,
      Sp(1), Tok("usdFlow:"), Sp(1), Num(e.usdFlow), Sp(1), Tok("}")>>

\* lines 154-157
NewScriptContent(existing_data_lines, new_data_line) ==
    LET updated_data_block ==
            Join(existing_data_lines) \o <<Comma, NL, Sp(12)>>
                \o new_data_line \o <<NL, Sp(8)>>
    IN  data_start_tag \o <<NL, Sp(8), OpenArr, NL>>
            \o Strip(updated_data_block)
            \o <<CloseArr, NL, Sp(8)>> \o data_end_tag

\* lines 136-158: [found, content]
UpdateDataArray(content, new_entry) ==
    LET start_index == Find(content, data_start_tag, 0)
        end_index   == Find(content, data_end_tag, 0)
    IN  IF start_index = -1 \/ end_index = -1
        THEN [found |-> FALSE, content |-> content]
        ELSE [found |-> TRUE,
              content |->
                 Slice(content, 0, start_index)
                 \o NewScriptContent(ExistingDataLines(content, start_index, end_index),
                                     NewDataLine(new_entry))
                 \o SliceFrom(content, end_index + Len(data_end_tag))]

\* lines 161-172: [found, content]
UpdateAiContent(content, summary_text) ==
    LET ai_start_index == Find(content, ai_content_start_tag, 0) + Len(ai_content_start_tag)
        ai_end_index   == Find(content, ai_content_end_tag, ai_start_index)
    IN  IF ai_start_index = -1 \/ ai_end_index = -1
        THEN [found |-> FALSE, content |-> content]
        ELSE [found |-> TRUE,
              content |->
                 Slice(content, 0, ai_start_index) \o <<NL, Sp(16)>> \o summary_text
                 \o <<NL, Sp(12)>> \o SliceFrom(content, ai_end_index)]

\* FileWrites with the data region written as soon as it is rebuilt, ahead
\* of the search for the narrative tags
FileWrites_Partial(data, ai, final) ==
    IF ~data.found THEN <<>>
    ELSE IF ~ai.found THEN <<data.content>>
    ELSE <<data.content, final>>

\* lines 139-141, 167-169, 177-178: what the function writes to the file,
\* in order, given the result of each of the two updates and the final text
FileWrites(data, ai, final) ==
    IF data.found /\ ai.found THEN <<final>> ELSE <<>>

\* lines 125-181: [ret, written]; "raise" is open() failing on a missing file
update_html_file(f, new_entry, summary_text) ==
    IF ~f.exists THEN [ret |-> "raise", written |-> <<>>]
    ELSE LET data  == UpdateDataArray(f.content, new_entry)
             ai    == UpdateAiContent(data.content, summary_text)
             final == Replace(ai.content, DATE_PLACEHOLDER, DateStr(new_entry.date))
         IN  [ret     |-> IF data.found /\ ai.found THEN "True" ELSE "False",
              written |-> FileWrites(data, ai, final)]

----------------------------------------------------------------------------
(* The environment: state files, price service, generation service *)

Entry1 == [date |-> 1, price |-> 60, holdings |-> 305000, btcFlow |-> 400,
           aum |-> 18300000, usdFlow |-> 24000]

Entry2 == [date |-> 2, price |-> 61, holdings |-> 305613, btcFlow |-> 613,
           aum |-> 18642393, usdFlow |-> 37393]

\* an entry whose holdings field is not a number
BadEntryLine ==
    <<Tok("{"), Sp(1), Tok("date:"), Sp(1), Tok("quote"), DateStr(2), Tok("quote"), Comma,
      Sp(1), Tok("holdings:"), Sp(1), Tok("n/a"), Comma,
      Sp(1), Tok("usdFlow:"), Sp(1), Num(0), Sp(1), Tok("}")>>

Header == <<Tok("<html>"), NL, Tok("<span>"), DATE_PLACEHOLDER, Tok("</span>"), NL>>

NarrativeBody == <<NL, Sp(16), Word(0), NL, Sp(12)>>

\* the array with its closing bracket on a line of its own
ArrayOwnLine(lastLine) ==
    <<NL, Sp(8), OpenArr, NL, Sp(12)>> \o NewDataLine(Entry1) \o <<Comma, NL, Sp(12)>>
        \o lastLine \o <<NL, Sp(8), CloseArr, NL, Sp(8)>>

\* the array with its closing bracket right after the last entry, as
\* update_html_file writes it
ArraySameLine ==
    <<NL, Sp(8), OpenArr, NL, Sp(12)>> \o NewDataLine(Entry1) \o <<Comma, NL, Sp(12)>>
        \o NewDataLine(Entry2) \o <<CloseArr, NL, Sp(8)>>

EmptyArray == <<NL, Sp(8), OpenArr, NL, Sp(8), CloseArr, NL, Sp(8)>>

Page(openTag, closeTag, startTag, array, endTag) ==
    [exists  |-> TRUE,
     content |-> Header \o openTag \o NarrativeBody \o closeTag
                   \o <<NL, Tok("<script>"), NL, Sp(8)>>
                   \o startTag \o array \o endTag
                   \o <<NL, Tok("</script>"), NL>>]

\* the same page with the script ahead of the paragraph
PageScriptFirst(openTag, closeTag, startTag, array, endTag) ==
    [exists  |-> TRUE,
     content |-> Header \o <<Tok("<script>"), NL, Sp(8)>>
                   \o startTag \o array \o endTag
                   \o <<NL, Tok("</script>"), NL>>
                   \o openTag \o NarrativeBody \o closeTag \o <<NL>>]

MissingFile == [exists |-> FALSE, content |-> <<>>]

CanonicalFile ==
    Page(ai_content_start_tag, ai_content_end_tag,
         data_start_tag, ArrayOwnLine(NewDataLine(Entry2)), data_end_tag)

SameLineFile ==
    Page(ai_content_start_tag, ai_content_end_tag,
         data_start_tag, ArraySameLine, data_end_tag)

InitialFiles ==
    { CanonicalFile,
      SameLineFile,
      Page(ai_content_start_tag, ai_content_end_tag,
           data_start_tag, ArrayOwnLine(NewDataLine(Entry2) \o <<Comma>>), data_end_tag),
      Page(ai_content_start_tag, ai_content_end_tag,
           data_start_tag, ArrayOwnLine(BadEntryLine), data_end_tag),
      Page(ai_content_start_tag, ai_content_end_tag,
           data_start_tag, EmptyArray, data_end_tag),
      Page(ai_content_start_tag, ai_content_end_tag,
           <<>>, ArrayOwnLine(NewDataLine(Entry2)), data_end_tag),
      Page(ai_content_start_tag, ai_content_end_tag,
           data_start_tag, ArrayOwnLine(NewDataLine(Entry2)), <<>>),
      Page(<<Tok("<p>")>>, ai_content_end_tag,
           data_start_tag, ArrayOwnLine(NewDataLine(Entry2)), data_end_tag),
      Page(<<Tok("<p>")>>, ai_content_end_tag,
           data_start_tag, ArraySameLine, data_end_tag),
      Page(ai_content_start_tag, <<>>,
           data_start_tag, ArrayOwnLine(NewDataLine(Entry2)), data_end_tag),
      PageScriptFirst(ai_content_start_tag, ai_content_end_tag,
           data_start_tag, ArraySameLine, data_end_tag),
      PageScriptFirst(<<Tok("<p>")>>, ai_content_end_tag,
           data_start_tag, ArrayOwnLine(NewDataLine(Entry2)), data_end_tag),
      MissingFile }

PriceResponses ==
    { [kind |-> "RequestException", usd |-> 0],
      [kind |-> "no_field", usd |-> 0],
      [kind |-> "null", usd |-> 0],
      [kind |-> "number", usd |-> 0],
      [kind |-> "number", usd |-> 65] }

ServiceOutcomes ==
    { [kind |-> "APIError", text |-> <<>>],
      [kind |-> "Exception", text |-> <<>>],
      [kind |-> "text", text |-> <<Word(1), NL, Word(2)>>],
      [kind |-> "text", text |-> <<Word(3), Sp(1), Tok("</p>"), Sp(1), Word(4)>>] }

----------------------------------------------------------------------------
(* __main__, run again and again *)

\* lines 186-189: exit(1) unless new_data; an uncaught exception ends the
\* process as well
AfterFetch(r) == IF r.status = "ok" THEN "generate" ELSE "exit"

Init ==
    /\ file \in InitialFiles
    /\ now = 3 * TicksPerDay
    /\ pc = "fetch"
    /\ new_data = [status |-> "None", entry |-> NoEntry]
    /\ summary = <<>>
    /\ exit_status = -1
    /\ ret = "none"
    /\ runs = 1
    /\ file0 = file
    /\ writes = 0
    /\ price_resp = [kind |-> "none", usd |-> 0]
    /\ gen_case = "none"
    /\ prev_summary = <<>>
    /\ init_file = file
    /\ added = <<>>

\* line 186
FetchLiveData ==
    /\ pc = "fetch"
    /\ \E resp \in PriceResponses :
         LET r == fetch_live_data(resp, now, file)
         IN  /\ new_data' = r
             /\ price_resp' = resp
             /\ pc' = AfterFetch(r)
             /\ exit_status' = IF AfterFetch(r) = "exit" THEN 1 ELSE exit_status
    /\ UNCHANGED <<file, now, summary, ret, runs, file0, writes, gen_case,
                   prev_summary, init_file, added>>

\* line 192
GenerateAiContent ==
    /\ pc = "generate"
    /\ \E api_key_set \in BOOLEAN, service \in ServiceOutcomes :
         LET r == generate_ai_content(api_key_set, service)
         IN  /\ gen_case' = IF api_key_set THEN service.kind ELSE "missing_key"
             /\ summary' = r.text
             /\ pc' = IF r.status = "return" THEN "update" ELSE "exit"
             /\ exit_status' = IF r.status = "return" THEN exit_status ELSE 1
    /\ UNCHANGED <<file, now, new_data, ret, runs, file0, writes, price_resp,
                   prev_summary, init_file, added>>

\* lines 195-196
UpdateHtmlFile ==
    /\ pc = "update"
    /\ LET r == update_html_file(file, new_data.entry, summary)
       IN  /\ ret' = r.ret
           /\ writes' = writes + Len(r.written)
           /\ file' = IF r.written = <<>> THEN file
                      ELSE [exists |-> TRUE, content |-> r.written[Len(r.written)]]
           /\ added' = IF r.ret = "True"
                       THEN Append(added, NewDataLine(new_data.entry)) ELSE added
           /\ exit_status' = IF r.ret = "raise" THEN 1 ELSE 0
    /\ pc' = "exit"
    /\ UNCHANGED <<now, new_data, summary, runs, file0, price_resp, gen_case,
                   prev_summary, init_file>>

\* the next invocation of the program, later on the same day or on a later day
NextRun ==
    /\ pc = "exit"
    /\ runs < MaxRuns
    /\ \E d \in 1..TicksPerDay : now' = now + d
    /\ runs' = runs + 1
    /\ pc' = "fetch"
    /\ new_data' = [status |-> "None", entry |-> NoEntry]
    /\ summary' = <<>>
    /\ exit_status' = -1
    /\ ret' = "none"
    /\ file0' = file
    /\ writes' = 0
    /\ price_resp' = [kind |-> "none", usd |-> 0]
    /\ gen_case' = "none"
    /\ prev_summary' = IF ret = "True" THEN summary ELSE prev_summary
    /\ UNCHANGED <<file, init_file, added>>

Next == FetchLiveData \/ GenerateAiContent \/ UpdateHtmlFile \/ NextRun

Spec == Init /\ [][Next]_vars

----------------------------------------------------------------------------
(* Reading a state file back, for the properties below: an independent     *)
(* parse of the two regions, not the line arithmetic of update.py          *)

Occurrences(s, pat) ==
    Cardinality({i \in 0..(Len(s) - Len(pat)) : SubSeq(s, i + 1, i + Len(pat)) = pat})

HasDataMarkers(f) ==
    f.exists /\ Contains(f.content, data_start_tag) /\ Contains(f.content, data_end_tag)

HasNarrativeMarkers(f) ==
    /\ f.exists
    /\ Contains(f.content, ai_content_start_tag)
    /\ Find(f.content, ai_content_end_tag,
            Find(f.content, ai_content_start_tag, 0) + Len(ai_content_start_tag)) # -1

\* the text between the first start marker and the first end marker
DataRegion(f) ==
    Slice(f.content, Find(f.content, data_start_tag, 0) + Len(data_start_tag),
          Find(f.content, data_end_tag, 0))

\* the text between the narrative opening tag and the first closing tag after it
NarrativeRegion(f) ==
    LET from == Find(f.content, ai_content_start_tag, 0) + Len(ai_content_start_tag)
    IN  Slice(f.content, from, Find(f.content, ai_content_end_tag, from))

\* the brace-delimited literals of a text, in order
RECURSIVE Literals(_)
Literals(s) ==
    LET open  == Find(s, <<Tok("{")>>, 0)
        close == Find(s, <<Tok("}")>>, open)
    IN  IF open = -1 \/ close = -1 THEN <<>>
        ELSE <<Slice(s, open, close + 1)>> \o Literals(SliceFrom(s, close + 1))

EntriesOf(f) == IF HasDataMarkers(f) THEN Literals(DataRegion(f)) ELSE <<>>

\* the number written after `holdings:` in a literal
HoldingsField(literal) == literal[Find(literal, <<Tok("holdings:")>>, 0) + 3].v

\* the dates of the region, in order
DatesOf(f) ==
    LET d == SelectSeq(DataRegion(f), LAMBDA t : t.k = "date")
    IN  [i \in 1..Len(d) |-> d[i].v]

NoWs(s) == SelectSeq(s, LAMBDA t : ~IsWs(t))

RECURSIVE Delimited(_)
Delimited(literals) ==
    IF Len(literals) = 0 THEN <<>>
    ELSE IF Len(literals) = 1 THEN NoWs(literals[1])
    ELSE NoWs(literals[1]) \o <<Comma>> \o Delimited(Tail(literals))

\* each marker once, and between them one array opening, the entries
\* separated by one delimiter each with none after the last, one closing
WellFormed(f) ==
    /\ f.exists
    /\ Occurrences(f.content, data_start_tag) = 1
    /\ Occurrences(f.content, data_end_tag) = 1
    /\ LET r == Strip(DataRegion(f))
       IN  /\ Len(r) >= 2
           /\ r[1] = OpenArr
           /\ r[Len(r)] = CloseArr
           /\ Occurrences(r, <<OpenArr>>) = 1
           /\ Occurrences(r, <<CloseArr>>) = 1
           /\ NoWs(SubSeq(r, 2, Len(r) - 1)) = Delimited(Literals(r))

PriceObtained == price_resp.kind = "number" /\ price_resp.usd # 0

PriceFailed ==
    \/ price_resp.kind \in {"RequestException", "no_field", "null"}
    \/ price_resp.kind = "number" /\ price_resp.usd = 0

Placeholder(case) ==
    IF case = "missing_key" THEN MissingKeyText
    ELSE IF case = "APIError" THEN ApiErrorText
    ELSE UnexpectedErrorText

----------------------------------------------------------------------------
(* The properties *)

\* C1: a successful update_html_file on a file with both data markers keeps
\* every entry of the data region, in order and unchanged, and adds exactly
\* the new record after them.
C1_NoEntryLost ==
    (pc = "exit" /\ ret = "True" /\ HasDataMarkers(file0))
        => EntriesOf(file) = EntriesOf(file0) \o <<NewDataLine(new_data.entry)>>

\* C2: on a file that update_html_file produced, fetch_live_data (given a
\* price) returns a record whose btcFlow is the configured holdings minus
\* the holdings of the last entry of the data region.
C2_FlowFromLastEntry ==
    (PriceObtained /\ file0 # init_file /\ EntriesOf(file0) # <<>>)
        => /\ new_data.status = "ok"
           /\ new_data.entry.btcFlow =
                LATEST_IBIT_HOLDINGS_BTC
                    - HoldingsField(EntriesOf(file0)[Len(EntriesOf(file0))])

\* C3: when the price was obtained and the file yields no previous holdings
\* (missing file, a data marker absent, no entry in the region),
\* fetch_live_data still returns a record, with btcFlow = 500.
C3_FallbackNeverFails ==
    (PriceObtained /\ EntriesOf(file0) = <<>>)
        => new_data.status = "ok" /\ new_data.entry.btcFlow = 500

\* C4: when the price request fails or gives no, a null or a zero price,
\* fetch_live_data returns no record and the run ends with status 1, without
\* the generator, without the injector and without a write of the file.
C4_PriceFailureAborts ==
    PriceFailed
        => /\ new_data.status = "None"
           /\ pc = "exit"
           /\ exit_status = 1
           /\ gen_case = "none"
           /\ ret = "none"
           /\ writes = 0
           /\ file = file0

C4_Witness ==
    /\ runs = 2
    /\ price_resp.kind = "no_field"
    /\ pc = "exit"
    /\ exit_status = 1
    /\ added # <<>>

\* C5: update_html_file reports success only when the prior file has all
\* four markers: both data markers, the narrative opening tag and a closing
\* tag after it.
C5_SuccessNeedsAllMarkers ==
    ret = "True" => HasDataMarkers(file0) /\ HasNarrativeMarkers(file0)

\* C6: the write is all-or-nothing: at most one write in a run, the file is
\* unchanged unless update_html_file returned True, and a changed file has
\* both the data region changed and the new narrative in place (with the
\* narrative tags present: right after the opening tag, and the new record
\* as the last entry).
C6_AllOrNothing ==
    /\ writes <= 1
    /\ ret # "True" => file = file0 /\ writes = 0
    /\ file # file0 =>
          /\ ret = "True"
          /\ writes = 1
          /\ Contains(file.content, <<NL, Sp(16)>> \o summary \o <<NL, Sp(12)>>)
          /\ (HasDataMarkers(file) => DataRegion(file) # DataRegion(file0))
    /\ (ret = "True" /\ HasNarrativeMarkers(file0)) =>
          /\ Contains(file.content,
                      ai_content_start_tag \o <<NL, Sp(16)>> \o summary
                          \o <<NL, Sp(12)>> \o ai_content_end_tag)
          /\ EntriesOf(file)[Len(EntriesOf(file))] = NewDataLine(new_data.entry)

C6_Witness ==
    /\ pc = "exit"
    /\ ret = "False"
    /\ HasDataMarkers(file0)
    /\ ~HasNarrativeMarkers(file0)
    /\ file = file0

\* C7: after a successful update on a file with the narrative tags, no word
\* of the narrative the previous run wrote remains anywhere in the file,
\* unless the new narrative holds it too.
C7_OldNarrativeGone ==
    (pc = "exit" /\ ret = "True" /\ HasNarrativeMarkers(file0))
        => \A i \in 1..Len(prev_summary) :
              prev_summary[i].k = "word"
                 => \/ Contains(summary, <<prev_summary[i]>>)
                    \/ ~Contains(file.content, <<prev_summary[i]>>)

\* C8: the dates of the persisted sequence are strictly increasing, after
\* any number of runs, on the same day or not (every initial file has
\* strictly increasing dates; the files taken here have all four markers).
C8_DatesIncreasing ==
    (HasDataMarkers(file) /\ HasNarrativeMarkers(init_file))
        => \A i, j \in 1..Len(DatesOf(file)) :
              i < j => DatesOf(file)[i] < DatesOf(file)[j]

\* C9: when the credential is missing or the generation call raises,
\* generate_ai_content returns the matching placeholder and the run goes on
\* to the injector; with all four markers present the new record is then the
\* last entry of the data region and the narrative region holds the
\* placeholder.
C9_GenerationNeverAborts ==
    gen_case \in {"missing_key", "APIError", "Exception"}
        => /\ summary = Placeholder(gen_case)
           /\ pc \in {"update", "exit"}
           /\ pc = "exit" => ret # "none"
           /\ (pc = "exit" /\ HasDataMarkers(file0) /\ HasNarrativeMarkers(file0))
                 => /\ ret = "True"
                    /\ exit_status = 0
                    /\ EntriesOf(file)[Len(EntriesOf(file))] = NewDataLine(new_data.entry)
                    /\ NarrativeRegion(file) =
                          <<NL, Sp(16)>> \o Placeholder(gen_case) \o <<NL, Sp(12)>>

C9_Witness ==
    /\ pc = "exit"
    /\ gen_case = "missing_key"
    /\ ret = "True"
    /\ HasNarrativeMarkers(file0)
    /\ file # file0
    /\ Contains(file.content, MissingKeyText)

\* C10: a successful update of a file whose data region is well formed
\* leaves the data region well formed.
C10_WellFormedPreserved ==
    (pc = "exit" /\ ret = "True" /\ WellFormed(file0)) => WellFormed(file)

====
